---- MODULE Spec2Model ----
(***************************************************************************)
(* Model of the RAG service: backend/main.py (the /ingest and /chat        *)
(* handlers and the module-level knowledge-base references) and            *)
(* backend/rag/rag_answer.py (embed_query, retrieve, generate_answer).     *)
(*                                                                         *)
(* The handlers are "def" endpoints, which FastAPI runs on a thread pool,  *)
(* so each handler is a process whose steps are the handler's statements   *)
(* (a store or a load of a module global is one step).  Spec runs one      *)
(* request at a time; SpecConc interleaves the steps of NThreads requests. *)
(* SpecRetrieve applies the pure function retrieve to bounded inputs.      *)
(***************************************************************************)
EXTENDS Integers, Sequences, FiniteSets, TLC

\* ---------------------------------------------------------------- bounds
NThreads == 2       \* request threads of the pool that are modelled
MaxK == 3           \* largest k retrieve is applied to in SpecRetrieve
MaxRequests == 3    \* requests the pool accepts in SpecConc
\* ------------------------------------------------------ program constants
DefaultK == 4       \* retrieve(query, index, chunks, k=4)
ChunkSize == 2      \* chunk_text: maximum chunk length (scaled down)
ChunkOverlap == 1   \* chunk_text: overlap between consecutive chunks

Threads == 1..NThreads

\* ------------------------------------------------------------------ values
None == [tag |-> "None"]
Str(s) == [tag |-> "str", s |-> s]
List(items) == [tag |-> "list", items |-> items]
Index(vecs) == [tag |-> "index", vecs |-> vecs]

\* The contents knowledge.pdf can have when pdf_to_text reads it.
Texts == {Str(<<1, 2>>), Str(<<1, 2, 3>>), Str(<<4, 5, 6>>)}

Min(a, b) == IF a < b THEN a ELSE b

\* chunk_text(text): chunk n+1 begins at end(chunk n) - overlap; the trailing
\* text forms the last chunk; the empty text has no chunk.
RECURSIVE chunk_from(_, _)
chunk_from(s, start) ==
    LET end == Min(start + ChunkSize - 1, Len(s))
    IN  IF Len(s) = 0 THEN <<>>
        ELSE IF end = Len(s) THEN <<SubSeq(s, start, end)>>
        ELSE <<SubSeq(s, start, end)>> \o chunk_from(s, end - ChunkOverlap + 1)

chunk_text(text) == List(chunk_from(text.s, 1))

\* The embedding provider's vector for a text (unit length by construction).
Embed(c) == [emb |-> c]

\* build: one vector per chunk, in the chunks' order.
build_index(chunkList) ==
    Index([i \in 1..Len(chunkList.items) |-> Embed(chunkList.items[i])])

ntotal(idx) == Len(idx.vecs)

\* load_index(index_path, meta_path): both files, or an error when one is
\* missing or the two differ in length.
load_ok(idxFile, metaFile) ==
    /\ idxFile # None
    /\ metaFile # None
    /\ ntotal(idxFile) = Len(metaFile.items)

\* ------------------------------------------------------------- exceptions
OpenAIError(msg) == [type |-> "OpenAIError", msg |-> msg]
Exception(msg) == [type |-> "Exception", msg |-> msg]

Raise(exc) == [tag |-> "raise", exc |-> exc]
Return(val) == [tag |-> "return", val |-> val]

HTTPException(prefix, exc) ==
    [status |-> 500, detail |-> <<prefix, exc.msg>>]

\* ingest's except clauses (main.py 56-59).
IngestHandlerSwallowProvider(exc) ==
    HTTPException("Error during ingestion: ", exc)

IngestHandler(exc) ==
    IF exc.type = "OpenAIError"
    THEN HTTPException("OpenAI API error: ", exc)
    ELSE HTTPException("Error during ingestion: ", exc)

\* chat's except clauses (main.py 75-78).
ChatHandler(exc) ==
    IF exc.type = "OpenAIError"
    THEN HTTPException("OpenAI API error: ", exc)
    ELSE HTTPException("Error processing request: ", exc)

NotIngestedAnswer ==
    [status |-> 200,
     answer |-> "Knowledge base not ingested yet. Call /ingest first."]

\* --------------------------------------------------------------- retrieve
\* chunks[i] for a Python list: 0-based, negative positions count from the end.
PyGetItem(items, i) ==
    IF i >= 0 /\ i < Len(items) THEN Return(items[i + 1])
    ELSE IF i < 0 /\ -i <= Len(items) THEN Return(items[Len(items) + i + 1])
    ELSE Raise(Exception("list index out of range"))

\* index.search(qvec, k): k positions, each a stored vector's position or -1.
\* (None has no search method: the call raises before any id is returned.)
Search(idx, k) ==
    IF idx = None THEN {<<>>} ELSE [1..k -> (-1)..(ntotal(idx) - 1)]

\* The loop of retrieve (rag_answer.py 21-25) over the ids still to visit.
RECURSIVE RetrieveLoopKeepSentinel(_, _, _)
RetrieveLoopKeepSentinel(ids, items, results) ==
    IF ids = <<>> THEN Return(results)
    ELSE LET got == PyGetItem(items, Head(ids))
         IN  IF got.tag = "raise" THEN got
             ELSE RetrieveLoopKeepSentinel(Tail(ids), items, Append(results, got.val))

InSeq(x, seq) == \E j \in 1..Len(seq) : seq[j] = x

RECURSIVE RetrieveLoopDedup(_, _, _)
RetrieveLoopDedup(ids, items, results) ==
    IF ids = <<>> THEN Return(results)
    ELSE IF Head(ids) # -1
         THEN LET got == PyGetItem(items, Head(ids))
              IN  IF got.tag = "raise" THEN got
                  ELSE IF InSeq(got.val, results)
                       THEN RetrieveLoopDedup(Tail(ids), items, results)
                       ELSE RetrieveLoopDedup(Tail(ids), items,
                                              Append(results, got.val))
         ELSE RetrieveLoopDedup(Tail(ids), items, results)

RECURSIVE RetrieveLoop(_, _, _)
RetrieveLoop(ids, items, results) ==
    IF ids = <<>> THEN Return(results)
    ELSE IF Head(ids) # -1
         THEN LET got == PyGetItem(items, Head(ids))
              IN  IF got.tag = "raise" THEN got
                  ELSE RetrieveLoop(Tail(ids), items, Append(results, got.val))
         ELSE RetrieveLoop(Tail(ids), items, results)

\* embed_query (rag_answer.py 9-16): the vector, or the provider's error wrapped.
embed_query(providerOk) ==
    IF providerOk THEN Return("qvec")
    ELSE Raise(OpenAIError("Failed to generate embedding: "))

\* retrieve (rag_answer.py 18-25), given the provider's outcome and the ids the
\* search returns.
retrieve(providerOk, idx, ids, chunkList) ==
    LET qvec == embed_query(providerOk)
    IN  IF qvec.tag = "raise" THEN qvec
        ELSE IF idx = None
             THEN Raise(Exception("'NoneType' object has no attribute 'search'"))
        ELSE IF chunkList = None
             THEN IF \A j \in 1..Len(ids) : ids[j] = -1
                  THEN Return(<<>>)
                  ELSE Raise(Exception("'NoneType' object is not subscriptable"))
        ELSE RetrieveLoop(ids, chunkList.items, <<>>)

\* generate_answer (rag_answer.py 27-50).
generate_answer(providerOk) ==
    IF providerOk THEN Return("completion")
    ELSE Raise(OpenAIError("Failed to generate answer: "))

\* ------------------------------------------------------------------ state
VARIABLES
    index, chunks,          \* main.py 31-32: the in-memory knowledge base
    indexFile, metaFile,    \* the files at INDEX_PATH and META_PATH
    pc, kind,               \* each thread's position and the handler it runs
    frame,                  \* each thread's locals
    resp,                   \* each thread's response, once it has returned
    calls,                  \* history: provider calls of the request, and which failed
    pre, stage,             \* history: state at the request's start, failed stage
    everIngested,           \* history: an ingest has succeeded in this process
    overlap,                \* history: pairs of threads whose requests overlap
    lastLoad,               \* history: pair assigned by the last completed load step
    started,                \* history: requests the pool has accepted
    rq, rres                \* SpecRetrieve: inputs of retrieve and its outcome

globals == <<index, chunks>>
disk == <<indexFile, metaFile>>
hist == <<everIngested, overlap, lastLoad>>
rvars == <<rq, rres>>
vars == <<index, chunks, indexFile, metaFile, pc, kind, frame, resp, calls,
          pre, stage, everIngested, overlap, lastLoad, started, rq, rres>>

EmptyFrame ==
    [text |-> None, arg |-> None, built |-> None, loaded |-> None,
     argIndex |-> None, argChunks |-> None, hits |-> None]

NoCalls == [embed |-> 0, completion |-> 0, failed |-> {}]

Init ==
    /\ index = None
    /\ chunks = None
    /\ indexFile = None
    /\ metaFile = None
    /\ pc = [t \in Threads |-> "idle"]
    /\ kind = [t \in Threads |-> "none"]
    /\ frame = [t \in Threads |-> EmptyFrame]
    /\ resp = [t \in Threads |-> None]
    /\ calls = [t \in Threads |-> NoCalls]
    /\ pre = [t \in Threads |-> None]
    /\ stage = [t \in Threads |-> "none"]
    /\ everIngested = FALSE
    /\ overlap = {}
    /\ lastLoad = None
    /\ started = 0
    /\ rq = None
    /\ rres = None

Active(t) == pc[t] \notin {"idle", "done"}

\* A thread takes a new request.
Begin(t, k, first) ==
    /\ ~Active(t)
    /\ pc' = [pc EXCEPT ![t] = first]
    /\ kind' = [kind EXCEPT ![t] = k]
    /\ frame' = [frame EXCEPT ![t] = EmptyFrame]
    /\ resp' = [resp EXCEPT ![t] = None]
    /\ calls' = [calls EXCEPT ![t] = NoCalls]
    /\ pre' = [pre EXCEPT ![t] = [index |-> index, chunks |-> chunks,
                                  indexFile |-> indexFile, metaFile |-> metaFile]]
    /\ stage' = [stage EXCEPT ![t] = "none"]
    /\ overlap' = {p \in overlap : t \notin p}
                     \cup {{t, u} : u \in {v \in Threads \ {t} : Active(v)}}
    /\ UNCHANGED <<globals, disk, everIngested, lastLoad, rvars>>

\* The handler has returned: its locals are gone; the pair it loaded and the
\* arguments it passed to retrieve are kept as history.
Returned(f) ==
    [EmptyFrame EXCEPT !.loaded = f.loaded, !.argIndex = f.argIndex,
                       !.argChunks = f.argChunks]

\* The handler's except clause turns the exception into the response.
Fail(t, at, response) ==
    /\ pc' = [pc EXCEPT ![t] = "done"]
    /\ resp' = [resp EXCEPT ![t] = response]
    /\ stage' = [stage EXCEPT ![t] = at]
    /\ frame' = [frame EXCEPT ![t] = Returned(frame[t])]

Goto(t, next) == pc' = [pc EXCEPT ![t] = next]

\* The handler returns its response.
Finish(t, response) ==
    /\ pc' = [pc EXCEPT ![t] = "done"]
    /\ resp' = [resp EXCEPT ![t] = response]
    /\ frame' = [frame EXCEPT ![t] = Returned(frame[t])]
    /\ UNCHANGED stage

\* ----------------------------------------------------------------- ingest
StartIngest(t) == Begin(t, "ingest", "i_extract") /\ UNCHANGED started

PoolStartIngest(t) ==
    /\ started < MaxRequests
    /\ started' = started + 1
    /\ Begin(t, "ingest", "i_extract")

\* text = pdf_to_text(PDF_PATH)
IngestExtract(t) ==
    /\ pc[t] = "i_extract"
    /\ \/ \E text \in Texts :
             /\ frame' = [frame EXCEPT ![t].text = text]
             /\ Goto(t, "i_chunk")
             /\ UNCHANGED <<resp, stage>>
       \/ /\ Fail(t, "extract", IngestHandler(Exception("cannot read pdf")))
    /\ UNCHANGED <<globals, disk, kind, calls, pre, hist, started, rvars>>

\* chunks = chunk_text(text): the assignment is to the module global.
IngestChunk(t) ==
    /\ pc[t] = "i_chunk"
    /\ \/ /\ chunks' = chunk_text(frame[t].text)
          /\ Goto(t, "i_embed")
          /\ UNCHANGED <<resp, stage, frame>>
       \/ /\ Fail(t, "chunk", IngestHandler(Exception("chunking failed")))
          /\ UNCHANGED chunks
    /\ UNCHANGED <<index, disk, kind, calls, pre, hist, started, rvars>>

\* build_and_save_index(chunks, ...): the argument is the global's value at the
\* call; the chunks are embedded and the index is built from the vectors.
IngestEmbed(t) ==
    /\ pc[t] = "i_embed"
    /\ \/ /\ calls' = [calls EXCEPT ![t].embed = @ + 1]
          /\ frame' = [frame EXCEPT ![t].arg = chunks,
                                    ![t].built = build_index(chunks)]
          /\ Goto(t, "i_write_index")
          /\ UNCHANGED <<resp, stage>>
       \/ /\ calls' = [calls EXCEPT ![t].embed = @ + 1,
                                    ![t].failed = @ \cup {"embedding"}]
          /\ Fail(t, "embed",
                  IngestHandler(OpenAIError("Failed to generate embeddings: ")))
    /\ UNCHANGED <<globals, disk, kind, pre, hist, started, rvars>>

\* save: the search structure goes to INDEX_PATH ...
IngestWriteIndex(t) ==
    /\ pc[t] = "i_write_index"
    /\ \/ /\ indexFile' = frame[t].built
          /\ Goto(t, "i_write_meta")
          /\ UNCHANGED <<resp, stage, frame>>
       \/ /\ Fail(t, "write_index", IngestHandler(Exception("cannot write index")))
          /\ UNCHANGED indexFile
    /\ UNCHANGED <<globals, metaFile, kind, calls, pre, hist, started, rvars>>

\* ... and the chunk texts to META_PATH.
IngestWriteMeta(t) ==
    /\ pc[t] = "i_write_meta"
    /\ \/ /\ metaFile' = frame[t].arg
          /\ Goto(t, "i_load")
          /\ UNCHANGED <<resp, stage, frame>>
       \/ /\ Fail(t, "write_meta", IngestHandler(Exception("cannot write chunks")))
          /\ UNCHANGED metaFile
    /\ UNCHANGED <<globals, indexFile, kind, calls, pre, hist, started, rvars>>

\* load_index(INDEX_PATH, META_PATH) returns the pair on disk.
IngestLoad(t) ==
    /\ pc[t] = "i_load"
    /\ \/ /\ load_ok(indexFile, metaFile)
          /\ frame' = [frame EXCEPT ![t].loaded = <<indexFile, metaFile>>]
          /\ Goto(t, "i_store_index")
          /\ UNCHANGED <<resp, stage>>
       \/ /\ Fail(t, "load", IngestHandler(Exception("cannot load index")))
    /\ UNCHANGED <<globals, disk, kind, calls, pre, hist, started, rvars>>

\* index, chunks = <the pair>: two stores, index first.
IngestStoreIndex(t) ==
    /\ pc[t] = "i_store_index"
    /\ index' = frame[t].loaded[1]
    /\ Goto(t, "i_store_chunks")
    /\ UNCHANGED <<chunks, disk, kind, frame, resp, calls, pre, stage, hist, started, rvars>>

IngestStoreChunks(t) ==
    /\ pc[t] = "i_store_chunks"
    /\ chunks' = frame[t].loaded[2]
    /\ lastLoad' = [by |-> t, index |-> frame[t].loaded[1],
                    chunks |-> frame[t].loaded[2]]
    /\ Goto(t, "i_return")
    /\ UNCHANGED <<index, disk, kind, frame, resp, calls, pre, stage,
                   everIngested, overlap, started, rvars>>

\* return {"status": "ok", "chunks": len(chunks)}
IngestReturn(t) ==
    /\ pc[t] = "i_return"
    /\ IF chunks = None
       THEN /\ Fail(t, "return", IngestHandler(Exception("NoneType has no len()")))
            /\ UNCHANGED everIngested
       ELSE /\ Finish(t, [status |-> 200, ok |-> "ok", chunks |-> Len(chunks.items)])
            /\ everIngested' = TRUE
    /\ UNCHANGED <<globals, disk, kind, calls, pre, overlap, lastLoad,
                   started, rvars>>

Ingest(t) ==
    \/ IngestExtract(t)
    \/ IngestChunk(t)
    \/ IngestEmbed(t)
    \/ IngestWriteIndex(t)
    \/ IngestWriteMeta(t)
    \/ IngestLoad(t)
    \/ IngestStoreIndex(t)
    \/ IngestStoreChunks(t)
    \/ IngestReturn(t)

\* ------------------------------------------------------------------- chat
StartChat(t) == Begin(t, "chat", "c_check") /\ UNCHANGED started

PoolStartChat(t) ==
    /\ started < MaxRequests
    /\ started' = started + 1
    /\ Begin(t, "chat", "c_check")

\* if index is None or chunks is None:
ChatCheckGuardBoth(i, c) == i = None /\ c = None

ChatCheckGuardAlways(i, c) == TRUE

ChatCheckGuard(i, c) == i = None \/ c = None

ChatCheck(t) ==
    /\ pc[t] = "c_check"
    /\ IF ChatCheckGuard(index, chunks)
       THEN Goto(t, "c_exists")
       ELSE Goto(t, "c_arg_index")
    /\ UNCHANGED <<globals, disk, kind, frame, resp, calls, pre, stage, hist, started, rvars>>

\* if os.path.exists(INDEX_PATH) and os.path.exists(META_PATH): ... else: return
ChatExists(t) ==
    /\ pc[t] = "c_exists"
    /\ IF indexFile # None /\ metaFile # None
       THEN /\ Goto(t, "c_load")
            /\ UNCHANGED <<resp, stage, frame>>
       ELSE Finish(t, NotIngestedAnswer)
    /\ UNCHANGED <<globals, disk, kind, calls, pre, hist, started, rvars>>

\* index, chunks = load_index(INDEX_PATH, META_PATH)
ChatLoad(t) ==
    /\ pc[t] = "c_load"
    /\ \/ /\ load_ok(indexFile, metaFile)
          /\ frame' = [frame EXCEPT ![t].loaded = <<indexFile, metaFile>>]
          /\ Goto(t, "c_store_index")
          /\ UNCHANGED <<resp, stage>>
       \/ /\ Fail(t, "load", ChatHandler(Exception("cannot load index")))
    /\ UNCHANGED <<globals, disk, kind, calls, pre, hist, started, rvars>>

ChatStoreIndex(t) ==
    /\ pc[t] = "c_store_index"
    /\ index' = frame[t].loaded[1]
    /\ Goto(t, "c_store_chunks")
    /\ UNCHANGED <<chunks, disk, kind, frame, resp, calls, pre, stage, hist, started, rvars>>

ChatStoreChunks(t) ==
    /\ pc[t] = "c_store_chunks"
    /\ chunks' = frame[t].loaded[2]
    /\ Goto(t, "c_arg_index")
    /\ UNCHANGED <<index, disk, kind, frame, resp, calls, pre, stage, hist, started, rvars>>

\* retrieve(payload.message, index, chunks): the arguments are two loads of
\* the module globals.
ChatArgIndex(t) ==
    /\ pc[t] = "c_arg_index"
    /\ frame' = [frame EXCEPT ![t].argIndex = index]
    /\ Goto(t, "c_arg_chunks")
    /\ UNCHANGED <<globals, disk, kind, resp, calls, pre, stage, hist, started, rvars>>

ChatArgChunks(t) ==
    /\ pc[t] = "c_arg_chunks"
    /\ frame' = [frame EXCEPT ![t].argChunks = chunks]
    /\ Goto(t, "c_retrieve")
    /\ UNCHANGED <<globals, disk, kind, resp, calls, pre, stage, hist, started, rvars>>

\* The outcome of chat's try block once retrieve has returned or raised.
AfterRetrieveFallback(t, out) ==
    /\ frame' = [frame EXCEPT ![t].hits = IF out.tag = "raise" THEN <<>> ELSE out.val]
    /\ Goto(t, "c_generate")
    /\ UNCHANGED <<resp, stage>>

AfterRetrieve(t, out) ==
    IF out.tag = "raise"
    THEN Fail(t, "retrieve", ChatHandler(out.exc))
    ELSE /\ frame' = [frame EXCEPT ![t].hits = out.val]
         /\ Goto(t, "c_generate")
         /\ UNCHANGED <<resp, stage>>

\* hits = retrieve(payload.message, index, chunks)
ChatRetrieve(t) ==
    /\ pc[t] = "c_retrieve"
    /\ \E providerOk \in BOOLEAN :
         /\ calls' = [calls EXCEPT ![t].embed = @ + 1,
                                   ![t].failed = IF providerOk THEN @
                                                 ELSE @ \cup {"embedding"}]
         /\ \E ids \in Search(frame[t].argIndex, DefaultK) :
                AfterRetrieve(t, retrieve(providerOk, frame[t].argIndex, ids,
                                          frame[t].argChunks))
    /\ UNCHANGED <<globals, disk, kind, pre, hist, started, rvars>>

\* answer = generate_answer(payload.message, hits); return {"answer": answer}
ChatGenerate(t) ==
    /\ pc[t] = "c_generate"
    /\ \E providerOk \in BOOLEAN :
         /\ calls' = [calls EXCEPT ![t].completion = @ + 1,
                                   ![t].failed = IF providerOk THEN @
                                                 ELSE @ \cup {"completion"}]
         /\ LET out == generate_answer(providerOk)
            IN  IF out.tag = "raise"
                THEN Fail(t, "generate", ChatHandler(out.exc))
                ELSE Finish(t, [status |-> 200, answer |-> out.val])
    /\ UNCHANGED <<globals, disk, kind, pre, hist, started, rvars>>

Chat(t) ==
    \/ ChatCheck(t)
    \/ ChatExists(t)
    \/ ChatLoad(t)
    \/ ChatStoreIndex(t)
    \/ ChatStoreChunks(t)
    \/ ChatArgIndex(t)
    \/ ChatArgChunks(t)
    \/ ChatRetrieve(t)
    \/ ChatGenerate(t)

\* The process is restarted: the module is imported again, the files stay.
Restart ==
    /\ index' = None
    /\ chunks' = None
    /\ pc' = [t \in Threads |-> "idle"]
    /\ kind' = [t \in Threads |-> "none"]
    /\ frame' = [t \in Threads |-> EmptyFrame]
    /\ resp' = [t \in Threads |-> None]
    /\ calls' = [t \in Threads |-> NoCalls]
    /\ pre' = [t \in Threads |-> None]
    /\ stage' = [t \in Threads |-> "none"]
    /\ everIngested' = FALSE
    /\ overlap' = {}
    /\ lastLoad' = None
    /\ UNCHANGED <<disk, started, rvars>>

\* One request at a time (single-threaded dispatch in front of the handlers).
Next == StartIngest(1) \/ Ingest(1) \/ StartChat(1) \/ Chat(1) \/ Restart

Spec == Init /\ [][Next]_vars

\* The thread pool: the steps of NThreads requests interleave.
NextConc ==
    \E t \in Threads :
        PoolStartIngest(t) \/ Ingest(t) \/ PoolStartChat(t) \/ Chat(t)

SpecConc == Init /\ [][NextConc]_vars

\* retrieve as a function: every k up to MaxK, every index and chunk store of
\* the pool (of equal size or not), every result of the search.
ChunkStores == {List(<<>>)} \cup {chunk_text(text) : text \in Texts}

RetrieveInputs ==
    [k : 1..MaxK, index : {build_index(c) : c \in ChunkStores}, chunks : ChunkStores]

InitRetrieve ==
    /\ index = None
    /\ chunks = None
    /\ indexFile = None
    /\ metaFile = None
    /\ pc = [t \in Threads |-> "idle"]
    /\ kind = [t \in Threads |-> "none"]
    /\ frame = [t \in Threads |-> EmptyFrame]
    /\ resp = [t \in Threads |-> None]
    /\ calls = [t \in Threads |-> NoCalls]
    /\ pre = [t \in Threads |-> None]
    /\ stage = [t \in Threads |-> "none"]
    /\ everIngested = FALSE
    /\ overlap = {}
    /\ lastLoad = None
    /\ started = 0
    /\ rq \in RetrieveInputs
    /\ rres = None

RetrieveCall ==
    /\ rres = None
    /\ \E providerOk \in BOOLEAN :
         \E ids \in Search(rq.index, rq.k) :
             rres' = [ids |-> ids,
                      out |-> retrieve(providerOk, rq.index, ids, rq.chunks)]
    /\ UNCHANGED <<globals, disk, pc, kind, frame, resp, calls, pre, stage, hist,
                   started, rq>>

NextRetrieve == RetrieveCall

SpecRetrieve == InitRetrieve /\ [][NextRetrieve]_vars

\* ------------------------------------------------------------- properties
Ingests == {t \in Threads : kind[t] = "ingest"}
Chats == {t \in Threads : kind[t] = "chat"}
Done(t) == pc[t] = "done"
Failed(t) == Done(t) /\ resp[t].status = 500
Succeeded(t) == Done(t) /\ resp[t].status = 200
Quiescent == \A t \in Threads : ~Active(t)

\* Position i of the index is the vector of chunks[i], for every i.
Consistent(idx, chunkList) ==
    /\ ntotal(idx) = Len(chunkList.items)
    /\ \A i \in 1..ntotal(idx) : idx.vecs[i] = Embed(chunkList.items[i])

PairLoaded(i, c) == i # None /\ c # None
PairOnDisk(i, m) == i # None /\ m # None

\* C1: a failed ingest request leaves the module globals index and chunks
\* exactly as they were when the request began.
C1_FailedIngestLeavesMemory ==
    \A t \in Ingests :
        Failed(t) => index = pre[t].index /\ chunks = pre[t].chunks

\* C2: once an ingest has succeeded, between requests the in-memory index and
\* chunk store are both present and match position by position.
C2_IndexMatchesChunks ==
    (everIngested /\ Quiescent) =>
        PairLoaded(index, chunks) /\ Consistent(index, chunks)

\* C3: the (index, chunks) pair a chat passes to retrieve while it overlaps a
\* successful ingest is the pair from before that ingest or the pair the
\* ingest loaded, never a mixture.  (Stated for the plain case: memory held
\* a matching pair when the chat and when the ingest began, and the ingest
\* loaded a matching pair.)
C3_ChatSeesWholePair ==
    \A t \in Chats : \A u \in Ingests :
        ( /\ pc[t] \in {"c_retrieve", "c_generate", "done"}
          /\ frame[t].argChunks # None
          /\ PairLoaded(pre[t].index, pre[t].chunks)
          /\ Consistent(pre[t].index, pre[t].chunks)
          /\ PairLoaded(pre[u].index, pre[u].chunks)
          /\ Consistent(pre[u].index, pre[u].chunks)
          /\ Succeeded(u)
          /\ Consistent(frame[u].loaded[1], frame[u].loaded[2])
          /\ {t, u} \in overlap )
        => \/ /\ frame[t].argIndex = pre[u].index
              /\ frame[t].argChunks = pre[u].chunks
           \/ /\ frame[t].argIndex = frame[u].loaded[1]
              /\ frame[t].argChunks = frame[u].loaded[2]

\* C4: a chat made while no pair is loaded in memory and no pair is on disk
\* returns the fixed "not ingested yet" answer as a normal response.
C4_ChatBeforeIngest ==
    \A t \in Chats :
        ( /\ Done(t)
          /\ ~PairLoaded(pre[t].index, pre[t].chunks)
          /\ ~PairOnDisk(pre[t].indexFile, pre[t].metaFile) )
        => resp[t] = NotIngestedAnswer

C4_Witness ==
    \E t \in Chats :
        /\ Done(t)
        /\ pre[t].index = None
        /\ pre[t].chunks # None
        /\ ~PairOnDisk(pre[t].indexFile, pre[t].metaFile)
        /\ resp[t] = NotIngestedAnswer

\* C5: an ingest whose embedding call fails ends as an error whose message
\* starts with "OpenAI API error:", and both persisted files are as before.
C5_ProviderErrorDuringIngest ==
    \A t \in Ingests :
        (Done(t) /\ "embedding" \in calls[t].failed)
        => /\ resp[t].status = 500
           /\ resp[t].detail[1] = "OpenAI API error: "
           /\ indexFile = pre[t].indexFile
           /\ metaFile = pre[t].metaFile

C5_Witness ==
    \E t \in Ingests :
        /\ Done(t)
        /\ "embedding" \in calls[t].failed
        /\ PairOnDisk(pre[t].indexFile, pre[t].metaFile)
        /\ frame[t].arg = None

\* C6: a chat request leaves the persisted files alone, leaves a loaded pair
\* alone, and whatever it stores in memory is the pair that is on disk.
C6_ChatOnlyLoadsDiskPair ==
    \A t \in Chats :
        Done(t)
        => /\ indexFile = pre[t].indexFile
           /\ metaFile = pre[t].metaFile
           /\ PairLoaded(pre[t].index, pre[t].chunks)
                 => index = pre[t].index /\ chunks = pre[t].chunks
           /\ (index # pre[t].index \/ chunks # pre[t].chunks)
                 => index = indexFile /\ chunks = metaFile

C6_Witness ==
    \E t \in Chats :
        /\ Done(t)
        /\ pre[t].index = None
        /\ index # None
        /\ index = indexFile
        /\ chunks = metaFile

\* The ids of a search result that are not the sentinel, in order.
NotSentinel(i) == i # -1
Kept(ids) == SelectSeq(ids, NotSentinel)

\* C7: retrieve returns at most k texts, and exactly one per id that is not
\* the sentinel -1: a sentinel contributes no element.
C7_AtMostKNoSentinel ==
    (rres # None /\ rres.out.tag = "return")
    => /\ Len(rres.out.val) <= rq.k
       /\ Len(rres.out.val) = Cardinality({j \in 1..Len(rres.ids) : rres.ids[j] # -1})

C7_Witness ==
    /\ rres # None
    /\ rres.out.tag = "return"
    /\ \E j \in 1..Len(rres.ids) : rres.ids[j] = -1
    /\ \E j \in 1..Len(rres.ids) : rres.ids[j] # -1
    /\ Len(rres.out.val) < rq.k

\* C8: the result is chunks[i] for the ids the search returned, in the search's
\* order, with only the sentinels left out (repeated ids stay repeated).
C8_ResultFollowsSearchOrder ==
    (rres # None /\ rres.out.tag = "return")
    => rres.out.val =
          [j \in 1..Len(Kept(rres.ids)) |-> rq.chunks.items[Kept(rres.ids)[j] + 1]]

C8_Witness ==
    /\ rres # None
    /\ rres.out.tag = "return"
    /\ \E i, j \in 1..Len(rres.ids) :
          i < j /\ rres.ids[i] = rres.ids[j] /\ rres.ids[i] # -1
    /\ \E i, j \in 1..Len(rres.ids) :
          i < j /\ rres.ids[i] > rres.ids[j] /\ rres.ids[j] # -1
    /\ Len(rres.out.val) = rq.k

\* C9: a chat whose embedding or completion call fails ends as an error that
\* starts with "OpenAI API error:" and names the failed stage, carries no
\* answer, and no chat calls either provider more than once.
C9_ChatSurfacesProviderErrors ==
    \A t \in Chats :
        /\ calls[t].embed <= 1
        /\ calls[t].completion <= 1
        /\ (Done(t) /\ "embedding" \in calls[t].failed)
              => /\ resp[t] = [status |-> 500,
                               detail |-> <<"OpenAI API error: ",
                                            "Failed to generate embedding: ">>]
                 /\ calls[t].completion = 0
        /\ (Done(t) /\ "completion" \in calls[t].failed)
              => resp[t] = [status |-> 500,
                            detail |-> <<"OpenAI API error: ",
                                         "Failed to generate answer: ">>]

C9_Witness ==
    \E t \in Chats :
        /\ Done(t)
        /\ "completion" \in calls[t].failed
        /\ calls[t].embed = 1
        /\ resp[t].status = 500

\* C10: after two overlapping ingests have both succeeded, index and chunks
\* are the pair loaded by the one that completed its load step (main.py 54:
\* load_index and the stores of its pair) last.
C10_LastLoadWins ==
    \A t, u \in Ingests :
        (t # u /\ Succeeded(t) /\ Succeeded(u) /\ {t, u} \in overlap)
        => index = lastLoad.index /\ chunks = lastLoad.chunks
====
